---- MODULE Spec2Model ----
(***************************************************************************)
(* State-machine model of contracts/geo_quest_fhe.sol (contract            *)
(* GeoQuestFHE).  One action per external function; a transaction that     *)
(* reverts leaves the contract storage, the event log and the engine's     *)
(* capability tables untouched and only records its outcome in lastCall.   *)
(* The FHEVM initialisation effect of frontend/web/src/App.tsx is modelled *)
(* beside it, under its own specification AppSpec.                         *)
(***************************************************************************)
EXTENDS Integers, Sequences, FiniteSets, TLC

(***************************************************************************)
(* Bounds of the exploration.                                              *)
(***************************************************************************)
\* Longest id list explored (locationIds.push is otherwise unbounded).
MaxLocations == 2
\* Most initialize() calls explored after one wallet connection.
MaxInitializeCalls == 3

(***************************************************************************)
(* Inputs the callers draw from.                                           *)
(***************************************************************************)
Ids == {"", "loc1"}
Addresses == {"alice", "bob"}
Descriptions == {"cache"}
\* publicRadius arguments: at the unit, and the first whose square needs 33 bits.
Radii == {1, 65536}
\* block.timestamp of the blocks explored.
Timestamps == {1, 2}

(***************************************************************************)
(* The ciphertext engine (FHE library): handles and their plaintexts.      *)
(***************************************************************************)
\* Handle 0 is the uninitialised handle; the others are ciphertexts held by
\* the engine, with the plaintext the engine (and only the engine) knows.
ZeroHandle == 0
Plaintexts == <<1, 2, 3, 4, 5, 65539>>
Handles == 1..Len(Plaintexts)
PlainOf(h) == IF h = ZeroHandle THEN 0 ELSE Plaintexts[h]

\* An external ciphertext input: the handle it names and whether its input
\* proof is one the engine accepts.
ExternalInputs == [handle : Handles \cup {ZeroHandle}, proofOk : BOOLEAN]

Input(h, ok) == [handle |-> h, proofOk |-> ok]
\* The coordinate pairs creators submit: a good pair, and pairs with one
\* rejected proof or one uninitialised handle.
CoordinateInputs ==
    {<<Input(3, TRUE), Input(2, TRUE)>>,
     <<Input(3, FALSE), Input(2, TRUE)>>, <<Input(3, TRUE), Input(2, FALSE)>>,
     <<Input(ZeroHandle, TRUE), Input(2, TRUE)>>, <<Input(3, TRUE), Input(ZeroHandle, TRUE)>>}
\* The positions claimants submit.
UserLatitudeInputs == {e \in ExternalInputs : e.proofOk /\ e.handle # ZeroHandle} \cup {Input(3, FALSE)}
UserLongitudeInputs == {Input(2, TRUE), Input(3, TRUE), Input(2, FALSE)}

\* FHE.fromExternal: reverts on a proof the engine rejects (ProofRejected),
\* else returns the handle the input names.
ProofRejected(ext) == ~ext.proofOk
FromExternal(ext) == ext.handle

\* FHE.isInitialized: the handle is not the zero handle.
IsInitialized(h) == h # ZeroHandle

(***************************************************************************)
(* Fixed-width unsigned integers, as little-endian sequences of bytes, so  *)
(* that 32-bit wrap-around is computed at the width the contract uses.     *)
(***************************************************************************)
ByteBase == 16 * 16
\* euint32 / uint32: four bytes.
Uint32Bytes == 4
\* Wide enough for the exact square of any two 32-bit values and their sum.
WideBytes == 2 * Uint32Bytes + 1

\* The k low-order bytes of n (n is below 2^31 wherever the model holds a
\* number as an integer, so bytes beyond the fourth are zero).
ToBytes(n, k) ==
    [i \in 1..k |-> IF i > Uint32Bytes THEN 0 ELSE (n \div (ByteBase ^ (i - 1))) % ByteBase]

\* Carry propagation over column sums; the carry out of the last byte is dropped.
RECURSIVE Carry(_, _, _)
Carry(cols, i, carry) ==
    IF i > Len(cols) THEN <<>>
    ELSE LET t == cols[i] + carry
         IN  <<t % ByteBase>> \o Carry(cols, i + 1, t \div ByteBase)

RECURSIVE Column(_, _, _, _)
Column(a, b, i, j) == IF j > i THEN 0 ELSE a[j] * b[i - j + 1] + Column(a, b, i, j + 1)

\* a + b, a - b, a * b modulo 256^Len(a), and a <= b.
AddBytes(a, b) == Carry([i \in 1..Len(a) |-> a[i] + b[i]], 1, 0)
SubBytes(a, b) == Carry([i \in 1..Len(a) |-> a[i] + (ByteBase - 1 - b[i])], 1, 1)
MulBytes(a, b) == Carry([i \in 1..Len(a) |-> Column(a, b, i, 1)], 1, 0)
RECURSIVE LeqFrom(_, _, _)
LeqFrom(a, b, i) ==
    IF i = 0 THEN TRUE
    ELSE IF a[i] # b[i] THEN a[i] < b[i]
    ELSE LeqFrom(a, b, i - 1)
LeqBytes(a, b) == LeqFrom(a, b, Len(a))
\* Conversion to a narrower type keeps the low-order bytes.
Truncate(a, k) == SubSeq(a, 1, k)

\* The engine's homomorphic operations on euint32: the plaintext of the
\* result is the 32-bit wrapping result on the operands' plaintexts.
Euint32(h) == ToBytes(PlainOf(h), Uint32Bytes)
FheSub(x, y) == SubBytes(x, y)
FheMul(x, y) == MulBytes(x, y)
FheAdd(x, y) == AddBytes(x, y)
FheLeq(x, y) == LeqBytes(x, y)

(***************************************************************************)
(* ABI encoding of uint32 values and the oracle's decryption proofs.       *)
(***************************************************************************)
\* An ABI word: 32 bytes, big-endian, the value right-aligned.
WordBytes == 32
AbiWord(v) ==
    [i \in 1..WordBytes |->
        IF i <= WordBytes - Uint32Bytes THEN 0
        ELSE ToBytes(v, Uint32Bytes)[WordBytes - i + 1]]
RECURSIVE AbiEncode(_)
AbiEncode(vals) == IF vals = <<>> THEN <<>> ELSE AbiWord(Head(vals)) \o AbiEncode(Tail(vals))

\* abi.decode(data, (uint32)) reads the first word: it reverts when the data
\* is shorter than one word or the word does not fit 32 bits, and ignores
\* whatever follows the first word.
AbiDecodable(data) ==
    /\ Len(data) >= WordBytes
    /\ \A i \in 1..(WordBytes - Uint32Bytes) : data[i] = 0
RECURSIVE BigEndian(_, _, _)
BigEndian(data, i, last) ==
    IF i > last THEN 0 ELSE data[i] * ByteBase ^ (last - i) + BigEndian(data, i + 1, last)
AbiDecodeUint32(data) == BigEndian(data, WordBytes - Uint32Bytes + 1, WordBytes)

\* FHE.toBytes32 per handle, in order.
RECURSIVE PlainOfAll(_)
PlainOfAll(hs) == IF hs = <<>> THEN <<>> ELSE <<PlainOf(Head(hs))>> \o PlainOfAll(Tail(hs))

\* A decryption proof the oracle issues for a list of handles: its signature
\* covers that list and the ABI encoding of the handles' plaintexts, in order.
KmsProof(hs) == [signed |-> TRUE, handles |-> hs, cleartexts |-> AbiEncode(PlainOfAll(hs))]
\* Bytes that carry no oracle signature.
ForgedProof == [signed |-> FALSE, handles |-> <<>>, cleartexts |-> <<>>]

\* FHE.checkSignatures: reverts unless the proof is the oracle's signature
\* over exactly these handles and exactly these cleartext bytes.
SignaturesValid(cts, cleartexts, proof) ==
    /\ proof.signed
    /\ proof.handles = cts
    /\ proof.cleartexts = cleartexts

(***************************************************************************)
(* Contract storage.                                                       *)
(***************************************************************************)
VARIABLES
    locationData,        \* mapping(string => LocationData)
    locationIds,         \* string[]
    events,              \* the contract's event log
    allowed,             \* handles FHE.allowThis was called on
    publiclyDecryptable, \* handles FHE.makePubliclyDecryptable was called on
    now,                 \* block.timestamp
    lastCall             \* outcome of the latest external call

vars == <<locationData, locationIds, events, allowed, publiclyDecryptable, now, lastCall>>
storage == <<locationData, locationIds, events, allowed, publiclyDecryptable>>

(***************************************************************************)
(* frontend/web/src/App.tsx: the effect that initialises the FHEVM client  *)
(* once the wallet is connected.  The component's state is independent of  *)
(* the contract's.                                                         *)
(***************************************************************************)
VARIABLES
    isConnected,        \* useAccount().isConnected
    isInitialized,      \* useFhevm().isInitialized
    fhevmInitializing,  \* useState(false)
    transactionStatus,  \* "hidden", or "error" while the failure is shown
    effectDue,          \* a dependency of the effect changed since it last ran
    inFlight,           \* initialize() promises not yet settled
    initializeCalls,    \* initialize() calls since the wallet last connected
    errorReports        \* failures reported since the wallet last connected

appVars == <<isConnected, isInitialized, fhevmInitializing, transactionStatus,
             effectDue, inFlight, initializeCalls, errorReports>>

\* The component as mounted: every effect runs once after the first render.
AppMounted ==
    /\ isConnected = FALSE
    /\ isInitialized = FALSE
    /\ fhevmInitializing = FALSE
    /\ transactionStatus = "hidden"
    /\ effectDue = TRUE
    /\ inFlight = 0
    /\ initializeCalls = 0
    /\ errorReports = 0


\* The value every key of a Solidity mapping holds before it is written.
ZeroAddress == "0x0"
EmptyLocation ==
    [locationId |-> "", encryptedLatitude |-> ZeroHandle, encryptedLongitude |-> ZeroHandle,
     publicRadius |-> 0, description |-> "", creator |-> ZeroAddress, timestamp |-> 0,
     isVerified |-> FALSE, decryptedLatitude |-> 0, decryptedLongitude |-> 0]

\* bytes(locationData[id].locationId).length
IdLength(id) == IF locationData[id].locationId = "" THEN 0 ELSE 1

NoError == "ok"
\* A revert raised inside the engine on an input proof it rejects.
EngineRevert == "InvalidProof"
NoReturn == "none"
\* What a caller observes of a call: the revert reason (or NoError), the source
\* line of the statement that reverted (0 when none did), and the return value.
Call(op, id, err, line, ret) == [op |-> op, id |-> id, err |-> err, line |-> line, ret |-> ret]
Failure(reason, line) == [reason |-> reason, line |-> line]
Success == Failure(NoError, 0)

Init ==
    /\ locationData = [id \in Ids |-> EmptyLocation]
    /\ locationIds = <<>>
    /\ events = <<>>
    /\ allowed = {}
    /\ publiclyDecryptable = {}
    /\ now = 1
    /\ lastCall = Call("constructor", "", NoError, 0, NoReturn)
    /\ AppMounted

(***************************************************************************)
(* createLocation                                                          *)
(***************************************************************************)
\* createLocation without the require of line 38.
CreateErrorNoDuplicateCheck(id, encLat, encLng) ==
    IF ProofRejected(encLat) THEN Failure(EngineRevert, 39)
    ELSE IF ~IsInitialized(FromExternal(encLat)) THEN Failure("Invalid encrypted latitude", 39)
    ELSE IF ProofRejected(encLng) THEN Failure(EngineRevert, 40)
    ELSE IF ~IsInitialized(FromExternal(encLng)) THEN Failure("Invalid encrypted longitude", 40)
    ELSE Failure(NoError, 0)

\* createLocation taking the longitude handle without validating its proof.
CreateErrorNoLongitudeProof(id, encLat, encLng) ==
    IF IdLength(id) # 0 THEN Failure("Location already exists", 38)
    ELSE IF ProofRejected(encLat) THEN Failure(EngineRevert, 39)
    ELSE IF ~IsInitialized(FromExternal(encLat)) THEN Failure("Invalid encrypted latitude", 39)
    ELSE IF ~IsInitialized(FromExternal(encLng)) THEN Failure("Invalid encrypted longitude", 40)
    ELSE Failure(NoError, 0)

\* The require chain of createLocation: the revert reason, or NoError.
CreateError(id, encLat, encLng) ==
    IF IdLength(id) # 0 THEN Failure("Location already exists", 38)
    ELSE IF ProofRejected(encLat) THEN Failure(EngineRevert, 39)
    ELSE IF ~IsInitialized(FromExternal(encLat)) THEN Failure("Invalid encrypted latitude", 39)
    ELSE IF ProofRejected(encLng) THEN Failure(EngineRevert, 40)
    ELSE IF ~IsInitialized(FromExternal(encLng)) THEN Failure("Invalid encrypted longitude", 40)
    ELSE Success

\* The struct of lines 42-53 with the timestamp field left at its default.
NewLocationNoTimestamp(id, encLat, encLng, radius, description, sender) ==
    [locationId |-> id,
     encryptedLatitude |-> FromExternal(encLat),
     encryptedLongitude |-> FromExternal(encLng),
     publicRadius |-> radius,
     description |-> description,
     creator |-> sender,
     timestamp |-> 0,
     isVerified |-> FALSE,
     decryptedLatitude |-> 0,
     decryptedLongitude |-> 0]

\* The struct createLocation stores.
NewLocation(id, encLat, encLng, radius, description, sender) ==
    [locationId |-> id,
     encryptedLatitude |-> FromExternal(encLat),
     encryptedLongitude |-> FromExternal(encLng),
     publicRadius |-> radius,
     description |-> description,
     creator |-> sender,
     timestamp |-> now,
     isVerified |-> FALSE,
     decryptedLatitude |-> 0,
     decryptedLongitude |-> 0]

\* The event of line 61 without its creator argument.
LocationCreatedNoCreator(id, sender) ==
    [name |-> "LocationCreated", locationId |-> id, creator |-> ZeroAddress]

LocationCreated(id, sender) == [name |-> "LocationCreated", locationId |-> id, creator |-> sender]

\* createLocation without the makePubliclyDecryptable calls of lines 57-58.
createLocationNoPublicDecrypt(sender, id, encLat, encLng, radius, description) ==
    LET err == CreateError(id, encLat, encLng) IN
    IF err # Success
    THEN /\ lastCall' = Call("createLocation", id, err.reason, err.line, NoReturn)
         /\ UNCHANGED <<storage, now, appVars>>
    ELSE /\ Len(locationIds) < MaxLocations
         /\ locationData' = [locationData EXCEPT
                ![id] = NewLocation(id, encLat, encLng, radius, description, sender)]
         /\ allowed' = allowed \cup {FromExternal(encLat), FromExternal(encLng)}
         /\ locationIds' = Append(locationIds, id)
         /\ events' = Append(events, LocationCreated(id, sender))
         /\ lastCall' = Call("createLocation", id, NoError, 0, NoReturn)
         /\ UNCHANGED <<publiclyDecryptable, now, appVars>>

createLocation(sender, id, encLat, encLng, radius, description) ==
    LET err == CreateError(id, encLat, encLng) IN
    IF err # Success
    THEN /\ lastCall' = Call("createLocation", id, err.reason, err.line, NoReturn)
         /\ UNCHANGED <<storage, now, appVars>>
    ELSE /\ Len(locationIds) < MaxLocations
         /\ locationData' = [locationData EXCEPT
                ![id] = NewLocation(id, encLat, encLng, radius, description, sender)]
         /\ allowed' = allowed \cup {FromExternal(encLat), FromExternal(encLng)}
         /\ publiclyDecryptable' =
                publiclyDecryptable \cup {FromExternal(encLat), FromExternal(encLng)}
         /\ locationIds' = Append(locationIds, id)
         /\ events' = Append(events, LocationCreated(id, sender))
         /\ lastCall' = Call("createLocation", id, NoError, 0, NoReturn)
         /\ UNCHANGED <<now, appVars>>

(***************************************************************************)
(* verifyLocation                                                          *)
(***************************************************************************)
\* cts: the record's two handles, latitude first.
Cts(id) == <<locationData[id].encryptedLatitude, locationData[id].encryptedLongitude>>

\* What callers pass as (cleartext bytes, proof) for a record: the oracle's
\* output for both handles, its output for either handle alone, the
\* cleartext of one handle under the proof for both, and an unsigned proof.
SubmissionKinds == {"both", "latitudeOnly", "longitudeOnly", "tampered", "forged"}
Submission(id, kind) ==
    LET lat == Cts(id)[1]
        lng == Cts(id)[2]
    IN  CASE kind = "both" -> <<AbiEncode(PlainOfAll(Cts(id))), KmsProof(Cts(id))>>
          [] kind = "latitudeOnly" -> <<AbiEncode(<<PlainOf(lat)>>), KmsProof(<<lat>>)>>
          [] kind = "longitudeOnly" -> <<AbiEncode(<<PlainOf(lng)>>), KmsProof(<<lng>>)>>
          [] kind = "tampered" -> <<AbiEncode(<<PlainOf(lng)>>), KmsProof(Cts(id))>>
          [] kind = "forged" -> <<AbiEncode(PlainOfAll(Cts(id))), ForgedProof>>
Submissions(id) == {Submission(id, kind) : kind \in SubmissionKinds}

\* verifyLocation without the require of line 72.
VerifyErrorNoVerifiedCheck(id, clearLat, clearLng, latProof, lngProof) ==
    IF ~(IdLength(id) > 0) THEN Failure("Location does not exist", 71)
    ELSE IF ~SignaturesValid(Cts(id), clearLat, latProof) THEN Failure("InvalidKMSSignatures", 78)
    ELSE IF ~SignaturesValid(Cts(id), clearLng, lngProof) THEN Failure("InvalidKMSSignatures", 79)
    ELSE IF ~AbiDecodable(clearLat) THEN Failure("abi.decode", 81)
    ELSE IF ~AbiDecodable(clearLng) THEN Failure("abi.decode", 82)
    ELSE Failure(NoError, 0)

\* The requires and reverting calls of verifyLocation, in order.
VerifyError(id, clearLat, clearLng, latProof, lngProof) ==
    IF ~(IdLength(id) > 0) THEN Failure("Location does not exist", 71)
    ELSE IF locationData[id].isVerified THEN Failure("Location already verified", 72)
    ELSE IF ~SignaturesValid(Cts(id), clearLat, latProof) THEN Failure("InvalidKMSSignatures", 78)
    ELSE IF ~SignaturesValid(Cts(id), clearLng, lngProof) THEN Failure("InvalidKMSSignatures", 79)
    ELSE IF ~AbiDecodable(clearLat) THEN Failure("abi.decode", 81)
    ELSE IF ~AbiDecodable(clearLng) THEN Failure("abi.decode", 82)
    ELSE Success

DecodedLatitude(clearLat) == AbiDecodeUint32(clearLat)
DecodedLongitude(clearLng) == AbiDecodeUint32(clearLng)

\* The storage writes of verifyLocation with line 84 left out.
VerifiedLocationNoLatitude(rec, clearLat, clearLng) ==
    [rec EXCEPT !.decryptedLongitude = DecodedLongitude(clearLng),
                !.isVerified = TRUE]

\* The storage writes of verifyLocation with line 86 left out.
VerifiedLocationFlagUnset(rec, clearLat, clearLng) ==
    [rec EXCEPT !.decryptedLatitude = DecodedLatitude(clearLat),
                !.decryptedLongitude = DecodedLongitude(clearLng)]

\* The three storage writes of verifyLocation.
VerifiedLocation(rec, clearLat, clearLng) ==
    [rec EXCEPT !.decryptedLatitude = DecodedLatitude(clearLat),
                !.decryptedLongitude = DecodedLongitude(clearLng),
                !.isVerified = TRUE]

LocationVerified(id, lat, lng) ==
    [name |-> "LocationVerified", locationId |-> id,
     decryptedLatitude |-> lat, decryptedLongitude |-> lng]

\* verifyLocation with the latitude written right after its own signature
\* check, in a runtime that keeps the writes of a failed call.
verifyLocationPartialWrite(id, clearLat, clearLng, latProof, lngProof) ==
    LET err == VerifyError(id, clearLat, clearLng, latProof, lngProof) IN
    IF err = Success
    THEN /\ locationData' = [locationData EXCEPT
                ![id] = VerifiedLocation(locationData[id], clearLat, clearLng)]
         /\ events' = Append(events,
                LocationVerified(id, DecodedLatitude(clearLat), DecodedLongitude(clearLng)))
         /\ lastCall' = Call("verifyLocation", id, NoError, 0, NoReturn)
         /\ UNCHANGED <<locationIds, allowed, publiclyDecryptable, now, appVars>>
    ELSE /\ lastCall' = Call("verifyLocation", id, err.reason, err.line, NoReturn)
         /\ locationData' =
                IF err.line = 79 /\ AbiDecodable(clearLat)
                THEN [locationData EXCEPT ![id].decryptedLatitude = DecodedLatitude(clearLat)]
                ELSE locationData
         /\ UNCHANGED <<locationIds, events, allowed, publiclyDecryptable, now, appVars>>

\* verifyLocation setting the flag of every record instead of the one named.
verifyLocationFlagsAll(id, clearLat, clearLng, latProof, lngProof) ==
    LET err == VerifyError(id, clearLat, clearLng, latProof, lngProof) IN
    IF err # Success
    THEN /\ lastCall' = Call("verifyLocation", id, err.reason, err.line, NoReturn)
         /\ UNCHANGED <<storage, now, appVars>>
    ELSE /\ locationData' = [other \in Ids |->
                IF other = id THEN VerifiedLocation(locationData[id], clearLat, clearLng)
                ELSE [locationData[other] EXCEPT !.isVerified = TRUE]]
         /\ events' = Append(events,
                LocationVerified(id, DecodedLatitude(clearLat), DecodedLongitude(clearLng)))
         /\ lastCall' = Call("verifyLocation", id, NoError, 0, NoReturn)
         /\ UNCHANGED <<locationIds, allowed, publiclyDecryptable, now, appVars>>

verifyLocation(id, clearLat, clearLng, latProof, lngProof) ==
    LET err == VerifyError(id, clearLat, clearLng, latProof, lngProof) IN
    IF err # Success
    THEN /\ lastCall' = Call("verifyLocation", id, err.reason, err.line, NoReturn)
         /\ UNCHANGED <<storage, now, appVars>>
    ELSE /\ locationData' = [locationData EXCEPT
                ![id] = VerifiedLocation(locationData[id], clearLat, clearLng)]
         /\ events' = Append(events,
                LocationVerified(id, DecodedLatitude(clearLat), DecodedLongitude(clearLng)))
         /\ lastCall' = Call("verifyLocation", id, NoError, 0, NoReturn)
         /\ UNCHANGED <<locationIds, allowed, publiclyDecryptable, now, appVars>>

(***************************************************************************)
(* checkLocationProximity (view)                                           *)
(***************************************************************************)
\* checkLocationProximity taking the claimant's longitude handle without
\* validating its proof.
ProximityErrorNoLongitudeProof(id, encUserLat, encUserLng) ==
    IF ~(IdLength(id) > 0) THEN Failure("Location does not exist", 98)
    ELSE IF ~locationData[id].isVerified THEN Failure("Location not verified", 99)
    ELSE IF ProofRejected(encUserLat) THEN Failure(EngineRevert, 101)
    ELSE Failure(NoError, 0)

ProximityError(id, encUserLat, encUserLng) ==
    IF ~(IdLength(id) > 0) THEN Failure("Location does not exist", 98)
    ELSE IF ~locationData[id].isVerified THEN Failure("Location not verified", 99)
    ELSE IF ProofRejected(encUserLat) THEN Failure(EngineRevert, 101)
    ELSE IF ProofRejected(encUserLng) THEN Failure(EngineRevert, 102)
    ELSE Success

\* publicRadius * publicRadius in uint256 (no overflow: the radii explored are
\* far below 2^128), then narrowed to the 32 bits of a euint32.
RadiusSquared(radius) ==
    Truncate(MulBytes(ToBytes(radius, WideBytes), ToBytes(radius, WideBytes)), Uint32Bytes)

DistanceSquared(centerLatitude, centerLongitude, userLatitude, userLongitude) ==
    LET latitudeDiff == FheSub(Euint32(userLatitude), Euint32(centerLatitude))
        longitudeDiff == FheSub(Euint32(userLongitude), Euint32(centerLongitude))
    IN  FheAdd(FheMul(latitudeDiff, latitudeDiff), FheMul(longitudeDiff, longitudeDiff))

\* Lines 104-114 as a function of the two stored handles, the stored radius
\* and the claimant's two handles.
Within(centerLatitude, centerLongitude, radius, userLatitude, userLongitude) ==
    FheLeq(DistanceSquared(centerLatitude, centerLongitude, userLatitude, userLongitude),
           RadiusSquared(radius))

\* Within, tabulated once over the handles and radii explored (@@ makes the
\* table an explicit function, so it is computed once and then looked up).
StoredLatitudes == {enc[1].handle : enc \in CoordinateInputs}
StoredLongitudes == {enc[2].handle : enc \in CoordinateInputs}
UserLatitudes == {e.handle : e \in UserLatitudeInputs}
UserLongitudes == {e.handle : e \in UserLongitudeInputs}
WithinTable ==
    [q \in StoredLatitudes \X StoredLongitudes \X Radii \X UserLatitudes \X UserLongitudes |->
        Within(q[1], q[2], q[3], q[4], q[5])] @@ <<>>

\* The value checkLocationProximity returns when it does not revert.
ProximityResult(id, encUserLat, encUserLng) ==
    WithinTable[<<locationData[id].encryptedLatitude, locationData[id].encryptedLongitude,
                  locationData[id].publicRadius,
                  FromExternal(encUserLat), FromExternal(encUserLng)>>]

\* checkLocationProximity as a transaction that keeps an allowThis grant on
\* the claimant's two handles.
checkLocationProximityGranting(id, encUserLat, encUserLng) ==
    LET err == ProximityError(id, encUserLat, encUserLng) IN
    /\ lastCall' = IF err # Success
                   THEN Call("checkLocationProximity", id, err.reason, err.line, NoReturn)
                   ELSE Call("checkLocationProximity", id, NoError, 0,
                             ProximityResult(id, encUserLat, encUserLng))
    /\ allowed' = IF err # Success THEN allowed
                  ELSE allowed \cup {FromExternal(encUserLat), FromExternal(encUserLng)}
    /\ UNCHANGED <<locationData, locationIds, events, publiclyDecryptable, now, appVars>>

checkLocationProximity(id, encUserLat, encUserLng) ==
    LET err == ProximityError(id, encUserLat, encUserLng) IN
    /\ lastCall' = IF err # Success
                   THEN Call("checkLocationProximity", id, err.reason, err.line, NoReturn)
                   ELSE Call("checkLocationProximity", id, NoError, 0,
                             ProximityResult(id, encUserLat, encUserLng))
    /\ UNCHANGED <<storage, now, appVars>>

(***************************************************************************)
(* The read-only queries.                                                  *)
(***************************************************************************)
GetLocationDataError(id) ==
    IF ~(IdLength(id) > 0) THEN Failure("Location does not exist", 124) ELSE Success

\* The tuple getLocationData returns.
LocationView(id) ==
    <<locationData[id].description, locationData[id].creator, locationData[id].timestamp,
      locationData[id].isVerified, locationData[id].publicRadius>>

getLocationData(id) ==
    LET err == GetLocationDataError(id) IN
    /\ lastCall' = IF err # Success
                   THEN Call("getLocationData", id, err.reason, err.line, NoReturn)
                   ELSE Call("getLocationData", id, NoError, 0, LocationView(id))
    /\ UNCHANGED <<storage, now, appVars>>

\* getAllLocationIds returning the list newest first.
getAllLocationIdsNewestFirst ==
    /\ lastCall' = Call("getAllLocationIds", "", NoError, 0,
                        [i \in 1..Len(locationIds) |-> locationIds[Len(locationIds) + 1 - i]])
    /\ UNCHANGED <<storage, now, appVars>>

getAllLocationIds ==
    /\ lastCall' = Call("getAllLocationIds", "", NoError, 0, locationIds)
    /\ UNCHANGED <<storage, now, appVars>>

isAvailable ==
    /\ lastCall' = Call("isAvailable", "", NoError, 0, TRUE)
    /\ UNCHANGED <<storage, now, appVars>>

\* A later block: block.timestamp does not decrease.
NewBlock(timestamp) ==
    /\ timestamp > now
    /\ now' = timestamp
    /\ UNCHANGED <<storage, lastCall, appVars>>

Next ==
    \/ \E sender \in Addresses, id \in Ids, enc \in CoordinateInputs,
          radius \in Radii, description \in Descriptions :
            createLocation(sender, id, enc[1], enc[2], radius, description)
    \/ \E id \in Ids, lat \in SubmissionKinds, lng \in SubmissionKinds :
            verifyLocation(id, Submission(id, lat)[1], Submission(id, lng)[1],
                               Submission(id, lat)[2], Submission(id, lng)[2])
    \/ \E id \in Ids, encUserLat \in UserLatitudeInputs, encUserLng \in UserLongitudeInputs :
            checkLocationProximity(id, encUserLat, encUserLng)
    \/ \E id \in Ids : getLocationData(id)
    \/ getAllLocationIds
    \/ isAvailable
    \/ \E timestamp \in Timestamps : NewBlock(timestamp)

\* The contract alone, the component left as mounted.
Spec == Init /\ [][Next]_<<vars, appVars>>

(***************************************************************************)
(* frontend/web/src/App.tsx: the steps of the FHEVM initialisation effect. *)
(***************************************************************************)
\* The wallet connects: isConnected, a dependency of the effect, changes.
connect ==
    /\ ~isConnected
    /\ isConnected' = TRUE
    /\ effectDue' = TRUE
    /\ initializeCalls' = 0
    /\ errorReports' = 0
    /\ UNCHANGED <<isInitialized, fhevmInitializing, transactionStatus, inFlight, vars>>

disconnect ==
    /\ isConnected
    /\ isConnected' = FALSE
    /\ effectDue' = TRUE
    /\ UNCHANGED <<isInitialized, fhevmInitializing, transactionStatus, inFlight,
                   initializeCalls, errorReports, vars>>

\* The effect runs, up to its await: it returns at line 68 or 69, or sets
\* the flag (a dependency, so the effect is due again) and calls initialize().
initFhevmAfterConnection ==
    /\ effectDue
    /\ IF ~isConnected \/ isInitialized \/ fhevmInitializing
       THEN /\ effectDue' = FALSE
            /\ UNCHANGED <<fhevmInitializing, inFlight, initializeCalls>>
       ELSE /\ initializeCalls < MaxInitializeCalls
            /\ fhevmInitializing' = TRUE
            /\ inFlight' = inFlight + 1
            /\ initializeCalls' = initializeCalls + 1
            /\ effectDue' = TRUE
    /\ UNCHANGED <<isConnected, isInitialized, transactionStatus, errorReports, vars>>

\* initialize() resolves: the hook reports isInitialized, and the finally
\* block clears the flag.
initializeResolves ==
    /\ inFlight > 0
    /\ inFlight' = inFlight - 1
    /\ isInitialized' = TRUE
    /\ fhevmInitializing' = FALSE
    /\ effectDue' = TRUE
    /\ UNCHANGED <<isConnected, transactionStatus, initializeCalls, errorReports, vars>>

\* initialize() throws: the catch block shows the error, and the finally
\* block clears the flag.
initializeRejects ==
    /\ inFlight > 0
    /\ inFlight' = inFlight - 1
    /\ transactionStatus' = "error"
    /\ errorReports' = errorReports + 1
    /\ fhevmInitializing' = FALSE
    /\ effectDue' = TRUE
    /\ UNCHANGED <<isConnected, isInitialized, initializeCalls, vars>>

\* The timer of line 83 hides the error after three seconds.
hideTransactionStatus ==
    /\ transactionStatus = "error"
    /\ transactionStatus' = "hidden"
    /\ UNCHANGED <<isConnected, isInitialized, fhevmInitializing, effectDue, inFlight,
                   initializeCalls, errorReports, vars>>

AppNext ==
    \/ connect
    \/ disconnect
    \/ initFhevmAfterConnection
    \/ initializeResolves
    \/ initializeRejects
    \/ hideTransactionStatus

\* The component alone, the contract left as constructed.
AppSpec == Init /\ [][AppNext]_<<vars, appVars>>

(***************************************************************************)
(* Vocabulary of the properties.                                           *)
(***************************************************************************)
\* The ids createLocation has pushed.
Registered == {locationIds[i] : i \in 1..Len(locationIds)}
\* The positions in the event log of the events of one kind for one id.
EventsOf(name, id) ==
    {i \in 1..Len(events) : events[i].name = name /\ events[i].locationId = id}
\* This step is an external call of op (a call never moves block.timestamp,
\* NewBlock always does).
CallStep(op) == lastCall'.op = op /\ now' = now

(***************************************************************************)
(* C1 (createLocation, duplicate ids).  Once createLocation has succeeded  *)
(* for an id - the empty string included - every later createLocation with *)
(* that id reverts with "Location already exists" and leaves the stored    *)
(* record, the id list and the event log as they were.                     *)
(***************************************************************************)
C1_CreatedAtMostOnce ==
    \A id \in Ids : Cardinality(EventsOf("LocationCreated", id)) <= 1
C1_DuplicateIdRejected ==
    /\ []C1_CreatedAtMostOnce
    /\ [][(CallStep("createLocation") /\ EventsOf("LocationCreated", lastCall'.id) # {})
           => (/\ lastCall'.err = "Location already exists"
               /\ UNCHANGED <<locationData, locationIds, events>>)]_vars

(***************************************************************************)
(* C2 (verifyLocation succeeds at most once per record).  On a verified    *)
(* record every verifyLocation call, the one with the oracle's authentic   *)
(* output included, reverts with "Location already verified" and changes   *)
(* nothing; no id ever has two LocationVerified events.                    *)
(***************************************************************************)
C2_VerifiedRejectsAll ==
    \A id \in Ids :
        /\ Cardinality(EventsOf("LocationVerified", id)) <= 1
        /\ locationData[id].isVerified =>
              \A lat \in Submissions(id), lng \in Submissions(id) :
                  VerifyError(id, lat[1], lng[1], lat[2], lng[2])
                      = Failure("Location already verified", 72)
C2_RevealAtMostOnce ==
    /\ []C2_VerifiedRejectsAll
    /\ [][(CallStep("verifyLocation") /\ locationData[lastCall'.id].isVerified)
             => (/\ lastCall'.err = "Location already verified"
                 /\ UNCHANGED storage)]_vars
C2_Witness ==
    /\ lastCall.op = "verifyLocation"
    /\ lastCall.err = "Location already verified"
    /\ locationData[lastCall.id].isVerified
    /\ Cardinality(EventsOf("LocationVerified", lastCall.id)) = 1

(***************************************************************************)
(* C3 (verifyLocation is all-or-nothing).  A call in which either          *)
(* signature check fails - the latitude check passing and the longitude    *)
(* check failing included - reverts, and a reverted call changes no        *)
(* storage and emits no event; in every reachable state a record has       *)
(* either both decrypted fields, the flag and its LocationVerified event,  *)
(* or none of them.                                                        *)
(***************************************************************************)
C3_NeverPartial ==
    \A id \in Ids :
        /\ locationData[id].isVerified =>
              \E i \in EventsOf("LocationVerified", id) :
                  /\ events[i].decryptedLatitude = locationData[id].decryptedLatitude
                  /\ events[i].decryptedLongitude = locationData[id].decryptedLongitude
        /\ ~locationData[id].isVerified =>
              /\ locationData[id].decryptedLatitude = 0
              /\ locationData[id].decryptedLongitude = 0
              /\ EventsOf("LocationVerified", id) = {}
        /\ \A lat \in Submissions(id), lng \in Submissions(id) :
              (\/ ~SignaturesValid(Cts(id), lat[1], lat[2])
               \/ ~SignaturesValid(Cts(id), lng[1], lng[2]))
                  => VerifyError(id, lat[1], lng[1], lat[2], lng[2]) # Success
C3_FailedRevealChangesNothing ==
    /\ []C3_NeverPartial
    /\ [][(CallStep("verifyLocation") /\ lastCall'.err # NoError) => UNCHANGED storage]_vars
\* The latitude signature passed, the longitude signature did not.
C3_Witness ==
    /\ lastCall.op = "verifyLocation"
    /\ lastCall.line = 79
    /\ IdLength(lastCall.id) > 0
    /\ ~locationData[lastCall.id].isVerified
    /\ locationData[lastCall.id].decryptedLatitude = 0

(***************************************************************************)
(* C4 (a reveal is permanent).  A successful verifyLocation leaves the     *)
(* record verified with the two decoded values, and from then on, through  *)
(* every later operation on any id, the record stays verified with exactly *)
(* those values.                                                           *)
(***************************************************************************)
C4_RevealIsPermanent ==
    [][\A id \in Ids :
          /\ (CallStep("verifyLocation") /\ lastCall'.id = id /\ lastCall'.err = NoError)
                => \E lat \in Submissions(id), lng \in Submissions(id) :
                      /\ VerifyError(id, lat[1], lng[1], lat[2], lng[2]) = Success
                      /\ locationData'[id].isVerified
                      /\ locationData'[id].decryptedLatitude = AbiDecodeUint32(lat[1])
                      /\ locationData'[id].decryptedLongitude = AbiDecodeUint32(lng[1])
          /\ locationData[id].isVerified
                => /\ locationData'[id].isVerified
                   /\ locationData'[id].decryptedLatitude = locationData[id].decryptedLatitude
                   /\ locationData'[id].decryptedLongitude = locationData[id].decryptedLongitude]_vars
\* A verified record with its values, seen after a later createLocation.
C4_Witness ==
    /\ lastCall.op = "createLocation"
    /\ \E id \in Ids :
          /\ locationData[id].isVerified
          /\ locationData[id].decryptedLatitude = PlainOf(locationData[id].encryptedLatitude)
          /\ locationIds[Len(locationIds)] # id

(***************************************************************************)
(* C5 (each decrypted field is the plaintext of its own ciphertext).       *)
(* With checkSignatures accepting only the authentic decryption of the     *)
(* handle list it is given, every verified record has decryptedLatitude    *)
(* equal to the plaintext of encryptedLatitude and decryptedLongitude      *)
(* equal to the plaintext of encryptedLongitude.                           *)
(***************************************************************************)
C5_FieldsMatchOwnCiphertext ==
    \A id \in Ids :
        locationData[id].isVerified =>
            /\ locationData[id].decryptedLatitude = PlainOf(locationData[id].encryptedLatitude)
            /\ locationData[id].decryptedLongitude = PlainOf(locationData[id].encryptedLongitude)
(***************************************************************************)
(* C6 (no proximity answer on an unrevealed record).  For every registered *)
(* record that is not verified, checkLocationProximity reverts with        *)
(* "Location not verified", whatever the claimant's proofs are.            *)
(***************************************************************************)
C6_UnverifiedIsNotVerifiedError ==
    \A id \in Registered :
        ~locationData[id].isVerified =>
            \A encUserLat \in UserLatitudeInputs, encUserLng \in UserLongitudeInputs :
                ProximityError(id, encUserLat, encUserLng).reason = "Location not verified"

(***************************************************************************)
(* Exact integer arithmetic, for stating what the proximity test is meant  *)
(* to compute.                                                             *)
(***************************************************************************)
AbsDiff(a, b) == IF a >= b THEN a - b ELSE b - a
ExactSquare(n) == MulBytes(ToBytes(n, WideBytes), ToBytes(n, WideBytes))
ExactDistanceSquared(cLat, cLng, uLat, uLng) ==
    AddBytes(ExactSquare(AbsDiff(uLat, cLat)), ExactSquare(AbsDiff(uLng, cLng)))
\* (uLat - cLat)^2 + (uLng - cLng)^2 <= r^2 over the integers.
ExactWithin(cLat, cLng, r, uLat, uLng) ==
    LeqBytes(ExactDistanceSquared(cLat, cLng, uLat, uLng), ExactSquare(r))
\* The value is below 2^32.
FitsUint32(bytes) == \A i \in (Uint32Bytes + 1)..Len(bytes) : bytes[i] = 0
\* A difference, a squared term, the sum of the squares or the squared
\* radius is not a 32-bit unsigned value.
Overflows(cLat, cLng, r, uLat, uLng) ==
    \/ uLat < cLat
    \/ uLng < cLng
    \/ ~FitsUint32(ExactSquare(AbsDiff(uLat, cLat)))
    \/ ~FitsUint32(ExactSquare(AbsDiff(uLng, cLng)))
    \/ ~FitsUint32(ExactDistanceSquared(cLat, cLng, uLat, uLng))
    \/ ~FitsUint32(ExactSquare(r))

(***************************************************************************)
(* C7 (the proximity test is the exact circle test).  On a verified record *)
(* with centre (cLat, cLng) and radius r, a call with accepted claimant    *)
(* ciphertexts for (uLat, uLng) returns true exactly when                  *)
(* (uLat-cLat)^2 + (uLng-cLng)^2 <= r^2 over the integers.                 *)
(***************************************************************************)
C7_ProximityIsExactCircleTest ==
    \A id \in Ids :
        locationData[id].isVerified =>
            \A encUserLat \in UserLatitudeInputs, encUserLng \in UserLongitudeInputs :
                ProximityError(id, encUserLat, encUserLng) = Success =>
                    ProximityResult(id, encUserLat, encUserLng)
                        = ExactWithin(PlainOf(locationData[id].encryptedLatitude),
                                      PlainOf(locationData[id].encryptedLongitude),
                                      locationData[id].publicRadius,
                                      PlainOf(FromExternal(encUserLat)),
                                      PlainOf(FromExternal(encUserLng)))

(***************************************************************************)
(* C8 (overflow is a fatal error).  On a verified record, a call whose     *)
(* difference, squared term, sum of squares or squared radius does not fit *)
(* 32 bits reverts with NumericOverflow instead of returning a boolean.    *)
(***************************************************************************)
C8_OverflowReverts ==
    \A id \in Ids :
        locationData[id].isVerified =>
            \A encUserLat \in UserLatitudeInputs, encUserLng \in UserLongitudeInputs :
                (/\ ~ProofRejected(encUserLat)
                 /\ ~ProofRejected(encUserLng)
                 /\ Overflows(PlainOf(locationData[id].encryptedLatitude),
                              PlainOf(locationData[id].encryptedLongitude),
                              locationData[id].publicRadius,
                              PlainOf(FromExternal(encUserLat)),
                              PlainOf(FromExternal(encUserLng))))
                    => ProximityError(id, encUserLat, encUserLng).reason = "NumericOverflow"

(***************************************************************************)
(* C9 (isVerified is monotonic).  A record is created with isVerified      *)
(* false; once isVerified is true no operation changes the record again,   *)
(* so the flag never returns to false.                                     *)
(***************************************************************************)
C9_VerifiedIsTerminal ==
    [][\A id \in Ids :
          /\ (CallStep("createLocation") /\ lastCall'.id = id /\ lastCall'.err = NoError)
                => ~locationData'[id].isVerified
          /\ locationData[id].isVerified => locationData'[id] = locationData[id]
          /\ locationData'[id].isVerified \in BOOLEAN]_vars
\* A verified record on which a later createLocation was tried.
C9_Witness ==
    /\ lastCall.op = "createLocation"
    /\ lastCall.err = "Location already exists"
    /\ locationData[lastCall.id].isVerified

(***************************************************************************)
(* C10 (decrypted fields are zero until the reveal).  An unverified record *)
(* has both decrypted fields 0; a decrypted field changes only in the      *)
(* verifyLocation step that turns isVerified from false to true, which     *)
(* happens once per record.                                                *)
(***************************************************************************)
C10_ZeroWhileUnverified ==
    \A id \in Ids :
        /\ ~locationData[id].isVerified =>
              /\ locationData[id].decryptedLatitude = 0
              /\ locationData[id].decryptedLongitude = 0
        /\ Cardinality(EventsOf("LocationVerified", id))
              = IF locationData[id].isVerified THEN 1 ELSE 0
C10_DecryptedWrittenOnce ==
    /\ []C10_ZeroWhileUnverified
    /\ [][\A id \in Ids :
             (\/ locationData'[id].decryptedLatitude # locationData[id].decryptedLatitude
              \/ locationData'[id].decryptedLongitude # locationData[id].decryptedLongitude)
                => /\ CallStep("verifyLocation")
                   /\ lastCall'.id = id
                   /\ ~locationData[id].isVerified
                   /\ locationData'[id].isVerified]_vars
\* One record revealed, with non-zero values, beside a registered record
\* that is still unrevealed.
C10_Witness ==
    \E id \in Registered, other \in Registered :
        /\ locationData[id].isVerified
        /\ locationData[id].decryptedLatitude # 0
        /\ locationData[id].decryptedLongitude # 0
        /\ ~locationData[other].isVerified
        /\ locationData[other].decryptedLatitude = 0

(***************************************************************************)
(* C11 (what a successful createLocation stores).  A createLocation that   *)
(* succeeds for an id never created before writes exactly one record, the  *)
(* one under that id: its id is the argument, its handles are those of two *)
(* accepted inputs, its radius and description are arguments, its creator  *)
(* is the sender named in the event, its timestamp is block.timestamp, it  *)
(* is unverified with both decrypted fields 0; the id list grows by that   *)
(* id and the id was not in it before.                                     *)
(***************************************************************************)
C11_CreateStoresArguments ==
    [][\A id \in Ids :
          (/\ CallStep("createLocation")
           /\ lastCall'.id = id
           /\ lastCall'.err = NoError
           /\ EventsOf("LocationCreated", id) = {})
              => /\ \E sender \in Addresses, enc \in CoordinateInputs,
                       radius \in Radii, description \in Descriptions :
                        /\ ~ProofRejected(enc[1]) /\ ~ProofRejected(enc[2])
                        /\ locationData'[id] =
                              [locationId |-> id,
                               encryptedLatitude |-> enc[1].handle,
                               encryptedLongitude |-> enc[2].handle,
                               publicRadius |-> radius,
                               description |-> description,
                               creator |-> sender,
                               timestamp |-> now,
                               isVerified |-> FALSE,
                               decryptedLatitude |-> 0,
                               decryptedLongitude |-> 0]
                        /\ events'[Len(events')].creator = sender
                 /\ locationData[id] = EmptyLocation
                 /\ \A other \in Ids \ {id} : locationData'[other] = locationData[other]
                 /\ id \notin Registered
                 /\ locationIds' = Append(locationIds, id)]_vars
\* A record created in the second block by bob, beside an earlier one.
C11_Witness ==
    /\ lastCall.op = "createLocation"
    /\ lastCall.err = NoError
    /\ lastCall.id = "loc1"
    /\ Len(locationIds) = 2
    /\ locationIds[2] = "loc1"
    /\ locationData["loc1"].creator = "bob"
    /\ locationData["loc1"].timestamp = 2
    /\ locationData["loc1"].publicRadius = 65536
    /\ Cardinality(EventsOf("LocationCreated", "loc1")) = 1

(***************************************************************************)
(* C12 (createLocation with a rejected input proof).  When the existence   *)
(* test of line 38 passes and the engine rejects the latitude proof or the *)
(* longitude proof, either one alone, createLocation reverts with the      *)
(* engine's error; the reverted call stores no record, leaves the id list, *)
(* both capability tables and the event log as they were, and the same id  *)
(* is still accepted with valid proofs afterwards.                         *)
(***************************************************************************)
C12_RejectedProofReverts ==
    \A id \in Ids :
        IdLength(id) = 0 =>
            \A enc \in CoordinateInputs :
                (ProofRejected(enc[1]) \/ ProofRejected(enc[2]))
                    => CreateError(id, enc[1], enc[2]).reason = EngineRevert
C12_RejectedProofChangesNothing ==
    /\ []C12_RejectedProofReverts
    /\ [][(CallStep("createLocation") /\ lastCall'.err = EngineRevert)
             => /\ UNCHANGED storage
                /\ \E enc \in CoordinateInputs :
                      CreateError(lastCall'.id, enc[1], enc[2]) = Success]_vars
\* The longitude proof alone was rejected, for an id that has no record.
C12_Witness ==
    /\ lastCall.op = "createLocation"
    /\ lastCall.err = EngineRevert
    /\ lastCall.line = 40
    /\ lastCall.id = "loc1"
    /\ locationData["loc1"] = EmptyLocation
    /\ "loc1" \notin Registered
    /\ Len(locationIds) = 1

(***************************************************************************)
(* C13 (NotFound exactly for ids never created).  For an id createLocation *)
(* never succeeded for, verifyLocation, checkLocationProximity and         *)
(* getLocationData revert with "Location does not exist"; for an id it did *)
(* succeed for, whatever the id, none of the three reverts with that       *)
(* reason.                                                                 *)
(***************************************************************************)
C13_NotFoundIffNeverCreated ==
    \A id \in Ids :
        LET notFound == "Location does not exist" IN
        /\ \A lat \in Submissions(id), lng \in Submissions(id) :
              (VerifyError(id, lat[1], lng[1], lat[2], lng[2]).reason = notFound)
                  <=> (id \notin Registered)
        /\ \A encUserLat \in UserLatitudeInputs, encUserLng \in UserLongitudeInputs :
              (ProximityError(id, encUserLat, encUserLng).reason = notFound)
                  <=> (id \notin Registered)
        /\ (GetLocationDataError(id).reason = notFound) <=> (id \notin Registered)

(***************************************************************************)
(* C14 (the id list is the creation history).  getAllLocationIds returns   *)
(* the ids of the successful createLocation calls in the order they        *)
(* completed; a step either leaves the list alone or appends one id to it, *)
(* so every earlier list is a prefix of every later one; and no operation  *)
(* empties a stored record or drops an id from the list.                   *)
(***************************************************************************)
\* The ids of the LocationCreated events, in log order.
CreatedIds ==
    LET created == SelectSeq(events, LAMBDA e : e.name = "LocationCreated")
    IN  [i \in 1..Len(created) |-> created[i].locationId]
C14_ListIsCreationHistory ==
    /\ locationIds = CreatedIds
    /\ lastCall.op = "getAllLocationIds" => lastCall.ret = locationIds
    /\ \A id \in Registered : locationData[id] # EmptyLocation
C14_ListOnlyAppends ==
    /\ []C14_ListIsCreationHistory
    /\ [][/\ \/ locationIds' = locationIds
              \/ /\ CallStep("createLocation")
                 /\ lastCall'.err = NoError
                 /\ locationIds' = Append(locationIds, lastCall'.id)
           /\ \A id \in Ids :
                 locationData[id] # EmptyLocation => locationData'[id] # EmptyLocation]_vars
\* Two ids listed in the order they were created, the first one verified
\* in between.
C14_Witness ==
    /\ lastCall.op = "getAllLocationIds"
    /\ lastCall.ret = <<"loc1", "">>
    /\ locationData["loc1"].isVerified
    /\ Len(events) = 3
    /\ events[3].name = "LocationCreated"

(***************************************************************************)
(* C15 (creation-time fields are immutable).  Once createLocation has      *)
(* succeeded for an id, the record's id, two handles, radius, description, *)
(* creator and timestamp are the same in every later state, whatever is    *)
(* called afterwards - a createLocation with the same id included.         *)
(***************************************************************************)
\* The fields of a record that are set at creation.
CreationFields(rec) ==
    <<rec.locationId, rec.encryptedLatitude, rec.encryptedLongitude, rec.publicRadius,
      rec.description, rec.creator, rec.timestamp>>
C15_CreationFieldsImmutable ==
    [][\A id \in Ids :
          EventsOf("LocationCreated", id) # {}
              => CreationFields(locationData'[id]) = CreationFields(locationData[id])]_vars

(***************************************************************************)
(* C16 (events).  A successful createLocation appends one LocationCreated  *)
(* event with the id and the creator it stored; a successful               *)
(* verifyLocation appends one LocationVerified event with the id and the   *)
(* two values it stored; every other step - a reverted call, a proximity   *)
(* check, a query - leaves the event log as it was.  So an id has one      *)
(* LocationVerified event when its record is verified and none otherwise.  *)
(***************************************************************************)
C16_RevealedEventIffVerified ==
    /\ \A id \in Ids :
          Cardinality(EventsOf("LocationVerified", id))
              = IF locationData[id].isVerified THEN 1 ELSE 0
    /\ \A i \in 1..Len(events) : events[i].name \in {"LocationCreated", "LocationVerified"}
    /\ Len(events) = Len(locationIds) + Cardinality({id \in Ids : locationData[id].isVerified})
C16_OneEventPerSuccess ==
    /\ []C16_RevealedEventIffVerified
    /\ [][LET id == lastCall'.id
               succeeded(op) == CallStep(op) /\ lastCall'.err = NoError
           IN  IF succeeded("createLocation")
               THEN events' = Append(events,
                        [name |-> "LocationCreated", locationId |-> id,
                         creator |-> locationData'[id].creator])
               ELSE IF succeeded("verifyLocation")
               THEN events' = Append(events,
                        [name |-> "LocationVerified", locationId |-> id,
                         decryptedLatitude |-> locationData'[id].decryptedLatitude,
                         decryptedLongitude |-> locationData'[id].decryptedLongitude])
               ELSE events' = events]_vars
\* Both kinds of event in the log, the reveal last, with the values stored.
C16_Witness ==
    /\ lastCall.op = "verifyLocation"
    /\ lastCall.err = NoError
    /\ Len(events) = 3
    /\ events[1].name = "LocationCreated"
    /\ events[3].name = "LocationVerified"
    /\ events[3].locationId = lastCall.id
    /\ events[3].decryptedLatitude = locationData[lastCall.id].decryptedLatitude
    /\ events[3].decryptedLatitude # 0

(***************************************************************************)
(* C17 (coordinates stay secret until the reveal).  The plaintext of a     *)
(* record's two ciphertexts is within an observer's reach - in the stored  *)
(* decrypted fields, in an event, or through a decryption capability the   *)
(* contract granted - only if the record is verified.                      *)
(***************************************************************************)
\* FHE.makePubliclyDecryptable: anyone may ask the oracle for the plaintext
\* of the handle.
PubliclyDecryptable(h) == h \in publiclyDecryptable
\* The ways the contract puts the plaintext of the record's ciphertexts
\* within an observer's reach.
PlaintextExposed(id) ==
    \/ locationData[id].decryptedLatitude # 0
    \/ locationData[id].decryptedLongitude # 0
    \/ EventsOf("LocationVerified", id) # {}
    \/ PubliclyDecryptable(locationData[id].encryptedLatitude)
    \/ PubliclyDecryptable(locationData[id].encryptedLongitude)
C17_PlaintextOnlyAfterReveal ==
    \A id \in Registered : PlaintextExposed(id) => locationData[id].isVerified

(***************************************************************************)
(* C18 (the proximity answer depends on the claimant only through inside / *)
(* outside).  On a verified record, two calls with accepted claimant       *)
(* ciphertexts whose positions are both within the radius of the centre,   *)
(* or both outside it, return the same value.                              *)
(***************************************************************************)
\* The claimant's position is within the record's radius of its centre.
Inside(id, encUserLat, encUserLng) ==
    ExactWithin(PlainOf(locationData[id].encryptedLatitude),
                PlainOf(locationData[id].encryptedLongitude),
                locationData[id].publicRadius,
                PlainOf(FromExternal(encUserLat)),
                PlainOf(FromExternal(encUserLng)))
C18_SameClassificationSameAnswer ==
    \A id \in Ids :
        locationData[id].isVerified =>
            \A lat1 \in UserLatitudeInputs, lng1 \in UserLongitudeInputs,
               lat2 \in UserLatitudeInputs, lng2 \in UserLongitudeInputs :
                (/\ ProximityError(id, lat1, lng1) = Success
                 /\ ProximityError(id, lat2, lng2) = Success
                 /\ Inside(id, lat1, lng1) = Inside(id, lat2, lng2))
                    => ProximityResult(id, lat1, lng1) = ProximityResult(id, lat2, lng2)

(***************************************************************************)
(* C19 (checkLocationProximity has no side effects).  Whether the call     *)
(* returns true, returns false or reverts, the records, the id list, the   *)
(* event log and both capability tables are the same after it as before,   *)
(* and the same call made again has the same outcome.                      *)
(***************************************************************************)
\* The outcome of a checkLocationProximity call in the current state.
ProximityOutcome(id, encUserLat, encUserLng) ==
    LET err == ProximityError(id, encUserLat, encUserLng) IN
    IF err # Success THEN <<err.reason, err.line, NoReturn>>
    ELSE <<NoError, 0, ProximityResult(id, encUserLat, encUserLng)>>
\* The call just made gives the same outcome when made again.
C19_SameAnswerAgain ==
    lastCall.op = "checkLocationProximity" =>
        \E encUserLat \in UserLatitudeInputs, encUserLng \in UserLongitudeInputs :
            ProximityOutcome(lastCall.id, encUserLat, encUserLng)
                = <<lastCall.err, lastCall.line, lastCall.ret>>
C19_ProximityChangesNothing ==
    /\ []C19_SameAnswerAgain
    /\ [][CallStep("checkLocationProximity")
             => UNCHANGED <<locationData, locationIds, events, allowed, publiclyDecryptable>>]_vars
\* A call that returned true, on a verified record beside an unverified one.
C19_Witness ==
    /\ lastCall.op = "checkLocationProximity"
    /\ lastCall.err = NoError
    /\ lastCall.ret = TRUE
    /\ locationData[lastCall.id].isVerified
    /\ Len(locationIds) = 2
    /\ Len(events) = 3
    /\ allowed = {locationData[lastCall.id].encryptedLatitude,
                  locationData[lastCall.id].encryptedLongitude}

(***************************************************************************)
(* C20 (two verifyLocation calls racing for one record).  Transactions run *)
(* one after the other, so of two calls that both carry the oracle's       *)
(* output for a registered, unverified record, the one that runs first     *)
(* finds the record unverified and succeeds, and the other finds it        *)
(* verified and reverts with "Location already verified"; the record then  *)
(* has one LocationVerified event, with the values stored.                 *)
(***************************************************************************)
\* The revert reason of verifyLocation called now with the oracle's output.
AuthenticVerifyError(id) ==
    VerifyError(id, Submission(id, "both")[1], Submission(id, "both")[1],
                    Submission(id, "both")[2], Submission(id, "both")[2])
C20_ExactlyOneRevealSucceeds ==
    \A id \in Registered :
        IF ~locationData[id].isVerified
        THEN AuthenticVerifyError(id) = Success
        ELSE /\ AuthenticVerifyError(id) = Failure("Location already verified", 72)
             /\ Cardinality(EventsOf("LocationVerified", id)) = 1
             /\ \A i \in EventsOf("LocationVerified", id) :
                   /\ events[i].decryptedLatitude = locationData[id].decryptedLatitude
                   /\ events[i].decryptedLongitude = locationData[id].decryptedLongitude

(***************************************************************************)
(* C21 (who grants capabilities, and on what).  The two handles of every   *)
(* created record carry the contract's allowThis grant and are publicly    *)
(* decryptable.  Both capability tables change only in a successful        *)
(* createLocation, and then grow by exactly the two handles of the record  *)
(* it stored: a reverted createLocation, verifyLocation and                *)
(* checkLocationProximity grant nothing.                                   *)
(***************************************************************************)
\* The two handles stored in a record.
HandlesOf(rec) == {rec.encryptedLatitude, rec.encryptedLongitude}
C21_RecordHandlesGranted ==
    \A id \in Registered :
        /\ HandlesOf(locationData[id]) \subseteq allowed
        /\ HandlesOf(locationData[id]) \subseteq publiclyDecryptable
C21_GrantsOnlyOnCreate ==
    /\ []C21_RecordHandlesGranted
    /\ [][IF CallStep("createLocation") /\ lastCall'.err = NoError
           THEN /\ allowed' = allowed \cup HandlesOf(locationData'[lastCall'.id])
                /\ publiclyDecryptable' =
                      publiclyDecryptable \cup HandlesOf(locationData'[lastCall'.id])
           ELSE UNCHANGED <<allowed, publiclyDecryptable>>]_vars
\* The first record created: exactly its two handles are granted.
C21_Witness ==
    /\ lastCall.op = "createLocation"
    /\ lastCall.err = NoError
    /\ Len(locationIds) = 1
    /\ Cardinality(HandlesOf(locationData[lastCall.id])) = 2
    /\ allowed = HandlesOf(locationData[lastCall.id])
    /\ publiclyDecryptable = HandlesOf(locationData[lastCall.id])

(***************************************************************************)
(* C22 (every unverified record can be verified).  In every reachable      *)
(* state - whatever reverted verifyLocation calls, rejected createLocation *)
(* calls or proximity checks came before - each created record that is not *)
(* verified, whatever its id, has a verifyLocation call that succeeds: the *)
(* one carrying the oracle's output for the record's handles.              *)
(***************************************************************************)
C22_PendingCanBeVerified ==
    \A id \in Registered :
        ~locationData[id].isVerified =>
            \E lat \in Submissions(id), lng \in Submissions(id) :
                VerifyError(id, lat[1], lng[1], lat[2], lng[2]) = Success

(***************************************************************************)
(* C23 (the id list and the mapping agree).  locationIds has no duplicate  *)
(* entry; an id is in locationIds exactly when the existence test of       *)
(* verifyLocation, checkLocationProximity and getLocationData (stored id   *)
(* of non-zero length) finds a record for it; and the length of the list   *)
(* is the number of ids that test finds.                                   *)
(***************************************************************************)
\* The ids for which the existence test of lines 71, 98 and 124 passes.
Existing == {id \in Ids : IdLength(id) > 0}
C23_ListAgreesWithMapping ==
    /\ \A i, j \in 1..Len(locationIds) : locationIds[i] = locationIds[j] => i = j
    /\ Registered = Existing
    /\ Len(locationIds) = Cardinality(Existing)

(***************************************************************************)
(* C24 (an operation on one id touches no other id).  A createLocation or  *)
(* verifyLocation call on an id, successful or reverted, leaves the record *)
(* of every other id as it was, and leaves every entry the id list already *)
(* had in place.                                                           *)
(***************************************************************************)
C24_OtherRecordsUntouched ==
    [][(CallStep("createLocation") \/ CallStep("verifyLocation"))
          => /\ \A other \in Ids \ {lastCall'.id} : locationData'[other] = locationData[other]
             /\ Len(locationIds') >= Len(locationIds)
             /\ \A i \in 1..Len(locationIds) : locationIds'[i] = locationIds[i]]_vars
\* loc1 just verified, beside the earlier record of another creator that is
\* still as created.
C24_Witness ==
    /\ lastCall.op = "verifyLocation"
    /\ lastCall.err = NoError
    /\ lastCall.id = "loc1"
    /\ locationIds = <<"", "loc1">>
    /\ locationData[""].creator \in Addresses \ {locationData["loc1"].creator}
    /\ ~locationData[""].isVerified
    /\ locationData[""].publicRadius # locationData["loc1"].publicRadius

(***************************************************************************)
(* C25 (the claimant's proofs are validated).  On a verified record, a     *)
(* checkLocationProximity call whose latitude proof or longitude proof the *)
(* engine rejects, either one alone, reverts with the engine's error; a    *)
(* call that reverted has returned no boolean.                             *)
(***************************************************************************)
C25_RejectedClaimantProofReverts ==
    /\ \A id \in Ids :
          locationData[id].isVerified =>
              \A encUserLat \in UserLatitudeInputs, encUserLng \in UserLongitudeInputs :
                  (ProofRejected(encUserLat) \/ ProofRejected(encUserLng))
                      => /\ ProximityError(id, encUserLat, encUserLng).reason = EngineRevert
                         /\ ProximityOutcome(id, encUserLat, encUserLng)[3] = NoReturn
    /\ (lastCall.op = "checkLocationProximity" /\ lastCall.err # NoError)
          => lastCall.ret = NoReturn
\* The longitude proof alone was rejected, on a verified record.
C25_Witness ==
    /\ lastCall.op = "checkLocationProximity"
    /\ lastCall.err = EngineRevert
    /\ lastCall.line = 102
    /\ lastCall.ret = NoReturn
    /\ locationData[lastCall.id].isVerified

(***************************************************************************)
(* C26 (the order of the checks).  The state decides the error before the  *)
(* arguments do: createLocation on a created id reverts with "Location     *)
(* already exists" whatever its proofs; verifyLocation reverts with        *)
(* "Location does not exist" when the existence test fails and with        *)
(* "Location already verified" on a verified record, whatever its proofs;  *)
(* checkLocationProximity reverts with "Location does not exist", then     *)
(* with "Location not verified", before it looks at a proof.               *)
(***************************************************************************)
C26_StateBeforeArguments ==
    \A id \in Ids :
        /\ id \in Registered =>
              \A enc \in CoordinateInputs :
                  CreateError(id, enc[1], enc[2]) = Failure("Location already exists", 38)
        /\ ~(IdLength(id) > 0) =>
              /\ \A lat \in Submissions(id), lng \in Submissions(id) :
                    VerifyError(id, lat[1], lng[1], lat[2], lng[2])
                        = Failure("Location does not exist", 71)
              /\ \A encUserLat \in UserLatitudeInputs, encUserLng \in UserLongitudeInputs :
                    ProximityError(id, encUserLat, encUserLng)
                        = Failure("Location does not exist", 98)
        /\ (IdLength(id) > 0 /\ locationData[id].isVerified) =>
              \A lat \in Submissions(id), lng \in Submissions(id) :
                  VerifyError(id, lat[1], lng[1], lat[2], lng[2])
                      = Failure("Location already verified", 72)
        /\ (IdLength(id) > 0 /\ ~locationData[id].isVerified) =>
              \A encUserLat \in UserLatitudeInputs, encUserLng \in UserLongitudeInputs :
                  ProximityError(id, encUserLat, encUserLng)
                      = Failure("Location not verified", 99)

(***************************************************************************)
(* C27 (two createLocation calls racing for one id).  Transactions run one *)
(* after the other, so of two calls with accepted proofs for an id not yet *)
(* created, the one that runs first succeeds and the other reverts with    *)
(* "Location already exists"; the id is then listed once, has one          *)
(* LocationCreated event, and the record's creator is the one named in it. *)
(***************************************************************************)
\* The coordinate inputs whose proofs the engine accepts.
AcceptedCoordinateInputs ==
    {enc \in CoordinateInputs :
        /\ ~ProofRejected(enc[1]) /\ IsInitialized(FromExternal(enc[1]))
        /\ ~ProofRejected(enc[2]) /\ IsInitialized(FromExternal(enc[2]))}
C27_ExactlyOneCreateSucceeds ==
    \A id \in Ids :
        IF id \notin Registered
        THEN \A enc \in AcceptedCoordinateInputs : CreateError(id, enc[1], enc[2]) = Success
        ELSE /\ \A enc \in AcceptedCoordinateInputs :
                   CreateError(id, enc[1], enc[2]).reason = "Location already exists"
             /\ Cardinality({i \in 1..Len(locationIds) : locationIds[i] = id}) = 1
             /\ Cardinality(EventsOf("LocationCreated", id)) = 1
             /\ \A i \in EventsOf("LocationCreated", id) :
                   events[i].creator = locationData[id].creator

(***************************************************************************)
(* C28 (the FHEVM initialisation effect settles).  initialize() is never   *)
(* running twice at once and is never started once isInitialized is true;  *)
(* after one wallet connection a failure of initialize() is reported once  *)
(* and initialize() is not called a second time.                           *)
(***************************************************************************)
C28_InitializeNotRetried ==
    /\ inFlight <= 1
    /\ inFlight = 1 => fhevmInitializing
    /\ errorReports <= 1
    /\ initializeCalls <= 1
====
